---- MODULE Spec2Model ----
(***************************************************************************)
(* EventForwarder (hooktuah): the subscription registry, the three stream  *)
(* strategies (websocket, poll, custom) and the per-event pipeline.        *)
(*                                                                         *)
(* JavaScript runs one handler at a time, so every action below is one     *)
(* synchronous API call or one callback / promise continuation.            *)
(***************************************************************************)
EXTENDS Integers, Sequences, FiniteSets, TLC

\* subscription ids the caller uses
Keys == {"a", "b"}

\* bound: number of successful subscribe calls (sources started) in a run
MaxSubs == 1
\* bound: the same, in the behaviours that resubscribe (SpecResubscribe)
MaxResubs == 2
\* bound: number of events delivered to the pipeline in a run
MaxEvents == 2
\* bound: poll ticks of one subscription whose async callback is in flight
MaxInflight == 2

\* retry({ count: 3 })
RetryCount == 3

\* The notifier returned by retry's delay function: an Observable whose only
\* notification is complete(), 5000 ms after it is subscribed.
DelayNotifier == <<"complete">>

VARIABLES
    subs,    \* this.subs: key -> registry entry (None when the key is absent)
    insts,   \* every source started so far, in order of creation
    runs,    \* every pipeline run (next handler invocation) started so far
    threw    \* TRUE when the last API call threw (a configuration error)

vars == <<subs, insts, runs, threw>>

None == [inst |-> 0, h |-> "none"]

\* the temperature of the reading a source emits (SensorData.temperature)
Temps == {25, 100}

\* the reading with temperature t
Reading(t) == [deviceId |-> "sensor-001", temperature |-> t]

\* ForwarderConfig values offered to subscribe. sourceUrl / pollInterval:
\* TRUE when the field is present (truthy); createStream: "none" when the
\* field is absent, else what the factory's promise settles to.
\* shouldFetch: "none" when absent, "any" for a gate that may return true or
\* false or throw, "first" for the gate that is true on its first invocation
\* only; transform / customFetch: TRUE when the field is present; event: the
\* temperature of the reading the source emits.
Configs ==
    [type : {"websocket"}, sourceUrl : BOOLEAN, pollInterval : {FALSE},
     createStream : {"none"}, shouldFetch : {"any"}, transform : {TRUE},
     customFetch : {FALSE}, event : {25}]
    \cup
    [type : {"poll"}, sourceUrl : BOOLEAN, pollInterval : BOOLEAN,
     createStream : {"none"}, shouldFetch : {"any"}, transform : {TRUE},
     customFetch : {FALSE}, event : {25}]
    \cup
    [type : {"custom"}, sourceUrl : {FALSE}, pollInterval : {FALSE},
     createStream : {"none", "stream", "cleanup", "reject"},
     shouldFetch : {"any"}, transform : {TRUE}, customFetch : {FALSE},
     event : {25}]

\* createWebSocketStream throws 'sourceUrl is required for websocket sources'
WebSocketConfigError(cfg) == ~cfg.sourceUrl

\* createPollingStream throws 'Poll interval is required ...' or
\* 'sourceUrl is required for polling'
PollingConfigError(cfg) == ~cfg.pollInterval \/ ~cfg.sourceUrl

\* the fallback factory throws 'createStream is required for custom sources'
CustomConfigError(cfg) == cfg.createStream = "none"

\* a subscribe that validates sourceUrl only
ConfigErrorUrlOnly(cfg) ==
    IF cfg.type = "custom" THEN FALSE ELSE ~cfg.sourceUrl

\* the synchronous throws of subscribe, by config.type
ConfigError(cfg) ==
    IF cfg.type = "custom" THEN CustomConfigError(cfg)
    ELSE IF cfg.type = "websocket" THEN WebSocketConfigError(cfg)
    ELSE PollingConfigError(cfg)

\* The source a successful subscribe starts.
\*   outer : the subscription to from(createStream()): "open", "closed"
\*           (unsubscribed while the promise is pending), "done" (promise
\*           settled and delivered), "dropped" (settled after closed)
\*   src   : the resource behind the source: the socket connection, the
\*           interval timer, the subscribed inner Observable, or the resource
\*           a cleanup-yielding factory wired when it was invoked
\*   closed: the stream$ / inner subscription has been unsubscribed
\*   term  : how the stream ended on its own
\*   soFar, timer : retry's attempt counter and its pending setTimeout
\*   pg, pf: poll callbacks awaiting the gate / the fetch
\*   torn  : teardown invocations made by unsubscribe on this source's handle
\*   gate, transform, customFetch, event : the config the handlers close over
\*   used  : the "first" gate has been invoked
\*   urlSeen : what the last fetch function call received as its url
NewInst(k, cfg) ==
    [key    |-> k,
     type   |-> cfg.type,
     yields |-> cfg.createStream,
     outer  |-> IF cfg.type = "custom" THEN "open" ELSE "na",
     src    |-> IF cfg.type = "custom" /\ cfg.createStream # "cleanup"
                THEN "idle" ELSE "running",
     closed |-> FALSE,
     term   |-> "none",
     soFar  |-> 0,
     timer  |-> FALSE,
     pg     |-> 0,
     pf     |-> 0,
     torn   |-> 0,
     gate   |-> cfg.shouldFetch,
     transform |-> cfg.transform,
     customFetch |-> cfg.customFetch,
     event  |-> cfg.event,
     used   |-> FALSE,
     urlSeen |-> "none"]

Init ==
    /\ subs = [k \in Keys |-> None]
    /\ insts = <<>>
    /\ runs = <<>>
    /\ threw = FALSE

\* an unsubscribe that forgets to invoke the handle
TeardownSkipped(I, e) == [I EXCEPT ![e.inst].torn = @ + 1]

\* sub() or sub.unsubscribe() on a registry entry
Teardown(I, e) ==
    LET i == e.inst IN
    IF e.h = "fn"
    THEN [I EXCEPT ![i].src = "stopped", ![i].torn = @ + 1]
    ELSE IF e.h = "outer"
    THEN [I EXCEPT ![i].outer = IF @ = "open" THEN "closed" ELSE @,
                   ![i].torn = @ + 1]
    ELSE [I EXCEPT ![i].closed = TRUE,
                   ![i].src = IF @ = "running" THEN "stopped" ELSE @,
                   ![i].torn = @ + 1]

UnsubInsts(S, I, k) == IF S[k] # None THEN Teardown(I, S[k]) ELSE I

\* an unsubscribe that forgets the delete
UnsubSubsKeep(S, k) == S

\* delete this.subs[id]
UnsubSubs(S, k) == IF S[k] # None THEN [S EXCEPT ![k] = None] ELSE S

\* an unsubscribe that cancels the runs in flight for the key
UnsubscribeCancels(k) ==
    /\ insts' = UnsubInsts(subs, insts, k)
    /\ subs' = UnsubSubs(subs, k)
    /\ threw' = FALSE
    /\ runs' = [r \in 1..Len(runs) |->
                  IF /\ insts[runs[r].inst].key = k
                     /\ runs[r].stage \in {"gate", "transform", "forward"}
                  THEN [runs[r] EXCEPT !.stage = "dropped"]
                  ELSE runs[r]]

\* unsubscribe(id): the handle is invoked and the entry deleted; nothing in
\* it refers to the handlers already running
Unsubscribe(k) ==
    /\ insts' = UnsubInsts(subs, insts, k)
    /\ subs' = UnsubSubs(subs, k)
    /\ threw' = FALSE
    /\ UNCHANGED runs

RECURSIVE UnsubAllInsts(_, _, _)
UnsubAllInsts(S, I, ks) ==
    IF ks = {} THEN I
    ELSE LET k == CHOOSE x \in ks : TRUE
         IN UnsubAllInsts(UnsubSubs(S, k), UnsubInsts(S, I, k), ks \ {k})

\* an unsubscribeAll that invokes the handles but keeps the entries
UnsubAllSubsKeep(S, ks) == S

RECURSIVE UnsubAllSubs(_, _)
UnsubAllSubs(S, ks) ==
    IF ks = {} THEN S
    ELSE LET k == CHOOSE x \in ks : TRUE
         IN UnsubAllSubs(UnsubSubs(S, k), ks \ {k})

ActiveKeys(S) == {k \in Keys : S[k] # None}

UnsubscribeAll ==
    /\ insts' = UnsubAllInsts(subs, insts, ActiveKeys(subs))
    /\ subs' = UnsubAllSubs(subs, ActiveKeys(subs))
    /\ threw' = FALSE
    /\ UNCHANGED runs

\* subscribe(id, config); cap bounds the sources started in one behaviour
SubscribeUpTo(k, cfg, cap) ==
    LET S1 == UnsubSubs(subs, k)
        I1 == UnsubInsts(subs, insts, k)
        n  == Len(insts) + 1
    IN  IF ConfigError(cfg)
        THEN /\ subs' = S1
             /\ insts' = I1
             /\ threw' = TRUE
             /\ UNCHANGED runs
        ELSE /\ Len(insts) < cap
             /\ insts' = Append(I1, NewInst(k, cfg))
             /\ subs' = IF cfg.type = "custom"
                        THEN IF S1[k] = None
                             THEN [S1 EXCEPT ![k] = [inst |-> n, h |-> "outer"]]
                             ELSE S1
                        ELSE [S1 EXCEPT ![k] = [inst |-> n, h |-> "sub"]]
             /\ threw' = FALSE
             /\ UNCHANGED runs

Subscribe(k, cfg) == SubscribeUpTo(k, cfg, MaxSubs)

\* subscribe in the behaviours that start up to MaxResubs sources
Resubscribe(k, cfg) == SubscribeUpTo(k, cfg, MaxResubs)

Ids == 1..Len(insts)

\* A subscriber that is neither unsubscribed nor stopped still takes
\* notifications; next / error / complete on any other subscriber is a no-op.
Deliverable(I, i) == ~I[i].closed /\ I[i].term = "none"

\* the value of a run that has not posted
NoPayload == [posted |-> FALSE]

\* shouldProcessEvent's synchronous part when the request template has no
\* body: without a gate it returns true; otherwise it invokes the gate. The
\* "first" gate decides at the invocation, the "any" gate when it resolves.
GateAtCall(I, i) ==
    IF I[i].gate = "none" THEN "true"
    ELSE IF I[i].gate = "first" THEN (IF I[i].used THEN "false" ELSE "true")
    ELSE "pending"

\* gate invocations one call of shouldProcessEvent makes
GateCalls(I, i) == IF I[i].gate = "none" THEN 0 ELSE 1

\* a next handler that takes the event of a poll source as already gated
StartRunUngated(R, i) ==
    Append(R, [inst    |-> i,
               stage   |-> "gate",
               gate    |-> IF insts[i].type = "poll" THEN "true"
                           ELSE GateAtCall(insts, i),
               evals   |-> GateCalls(insts, i),
               posts   |-> 0,
               payload |-> NoPayload,
               late    |-> FALSE])

\* The async next handler is invoked for one event. A run records
\*   gate    : the gate's result, "pending" while it has not resolved
\*   evals   : gate invocations made for this event; the event of a poll
\*             source is fetched by a tick callback that has called
\*             shouldProcessEvent once already
\*   posts   : outbound POSTs issued
\*   payload : the body of the POST
\*   late    : the POST was issued when the key no longer held this source
StartRun(R, i) ==
    Append(R, [inst    |-> i,
               stage   |-> "gate",
               gate    |-> GateAtCall(insts, i),
               evals   |-> (IF insts[i].type = "poll"
                            THEN GateCalls(insts, i) ELSE 0)
                           + GateCalls(insts, i),
               posts   |-> 0,
               payload |-> NoPayload,
               late    |-> FALSE])

(***************************************************************************)
(* Custom strategy                                                         *)
(***************************************************************************)

\* The promise of createStream() settles; from() delivers it to the outer
\* subscriber unless that subscriber was unsubscribed meanwhile.
FactorySettle(i) ==
    /\ i \in Ids
    /\ insts[i].type = "custom"
    /\ insts[i].outer \in {"open", "closed"}
    /\ IF insts[i].outer = "closed"
       THEN /\ insts' = [insts EXCEPT ![i].outer = "dropped"]
            /\ UNCHANGED <<subs, threw>>
       ELSE IF insts[i].yields = "stream"
       THEN /\ insts' = [insts EXCEPT ![i].outer = "done", ![i].src = "running"]
            /\ subs' = [subs EXCEPT ![insts[i].key] =
                                        [inst |-> i, h |-> "streamSub"]]
       ELSE IF insts[i].yields = "cleanup"
       THEN /\ insts' = [insts EXCEPT ![i].outer = "done"]
            /\ subs' = [subs EXCEPT ![insts[i].key] = [inst |-> i, h |-> "fn"]]
       ELSE /\ insts' = [insts EXCEPT ![i].outer = "done"]
            /\ UNCHANGED <<subs, threw>>
    /\ UNCHANGED <<runs, threw>>

\* the inner Observable emits an event
CustomEmit(i) ==
    /\ i \in Ids
    /\ insts[i].type = "custom" /\ insts[i].yields = "stream"
    /\ insts[i].src = "running"
    /\ Deliverable(insts, i)
    /\ Len(runs) < MaxEvents
    /\ runs' = StartRun(runs, i)
    /\ insts' = [insts EXCEPT ![i].used = @ \/ insts[i].gate = "first"]
    /\ UNCHANGED <<subs, threw>>

\* a stream end that also deletes the registry entry
CustomEndRemoves(i, how) ==
    /\ i \in Ids
    /\ insts[i].type = "custom" /\ insts[i].yields = "stream"
    /\ insts[i].src = "running"
    /\ Deliverable(insts, i)
    /\ insts' = [insts EXCEPT ![i].term = how, ![i].src = "stopped"]
    /\ subs' = [subs EXCEPT ![insts[i].key] = None]
    /\ UNCHANGED <<runs, threw>>

\* the inner Observable completes or errors on its own
CustomEnd(i, how) ==
    /\ i \in Ids
    /\ insts[i].type = "custom" /\ insts[i].yields = "stream"
    /\ insts[i].src = "running"
    /\ Deliverable(insts, i)
    /\ insts' = [insts EXCEPT ![i].term = how, ![i].src = "stopped"]
    /\ UNCHANGED <<subs, runs, threw>>

(***************************************************************************)
(* WebSocket strategy                                                      *)
(***************************************************************************)

\* An error notification of the socket subject reaches retry (catchError
\* rethrows it). The socket is closed when its only subscriber goes away.
RetryOnError(I, i) ==
    IF I[i].soFar < RetryCount
    THEN [I EXCEPT ![i].soFar = @ + 1, ![i].src = "stopped", ![i].timer = TRUE]
    ELSE [I EXCEPT ![i].soFar = @ + 1, ![i].src = "stopped", ![i].term = "error"]

\* retry's handling of the first notification of the delay notifier: a next
\* resubscribes to the source, a complete completes the stream.
NotifierResult(I, i) ==
    IF Head(DelayNotifier) = "next"
    THEN [I EXCEPT ![i].timer = FALSE, ![i].src = "running"]
    ELSE [I EXCEPT ![i].timer = FALSE, ![i].term = "complete"]

\* a text frame arrives; the deserializer parses and validates it
WsFrame(i, valid) ==
    /\ i \in Ids
    /\ insts[i].type = "websocket"
    /\ insts[i].src = "running"
    /\ IF valid
       THEN /\ Len(runs) < MaxEvents
            /\ runs' = StartRun(runs, i)
            /\ UNCHANGED insts
       ELSE /\ insts' = RetryOnError(insts, i)
            /\ UNCHANGED runs
    /\ UNCHANGED <<subs, threw>>

\* the connection fails or drops
WsConnError(i) ==
    /\ i \in Ids
    /\ insts[i].type = "websocket"
    /\ insts[i].src = "running"
    /\ insts' = RetryOnError(insts, i)
    /\ UNCHANGED <<subs, runs, threw>>

\* the setTimeout of the delay notifier fires
RetryTimer(i) ==
    /\ i \in Ids
    /\ insts[i].timer
    /\ insts' = IF Deliverable(insts, i)
                THEN NotifierResult(insts, i)
                ELSE [insts EXCEPT ![i].timer = FALSE]
    /\ UNCHANGED <<subs, runs, threw>>

(***************************************************************************)
(* Poll strategy                                                           *)
(***************************************************************************)

\* subscriber.error(error) in the tick callback's catch: the stream errors
\* and its teardown unsubscribes the interval.
SubscriberError(I, i) ==
    IF Deliverable(I, i)
    THEN [I EXCEPT ![i].term = "error", ![i].src = "stopped"]
    ELSE I

\* interval(pollInterval) fires and the async callback starts
Tick(i) ==
    /\ i \in Ids
    /\ insts[i].type = "poll"
    /\ insts[i].src = "running"
    /\ insts[i].pg + insts[i].pf < MaxInflight
    /\ insts' = [insts EXCEPT ![i].pg = @ + 1]
    /\ UNCHANGED <<subs, runs, threw>>

\* the arguments of the call fetchFn(id, config.sourceUrl, requestConfig)
FetchArgs(I, i) == <<I[i].key, "sourceUrl", "requestConfig">>

\* What the fetch function binds to its url parameter: customFetch is
\* declared (url, config), defaultFetch (id, url, config).
UrlParam(I, i) ==
    IF I[i].customFetch THEN FetchArgs(I, i)[1] ELSE FetchArgs(I, i)[2]

\* what a gate of this kind can resolve to
GateResults(kind) == IF kind = "none" THEN {"true"} ELSE {"true", "false", "throw"}

\* await this.shouldProcessEvent(id, config) in the tick callback, then the
\* call of fetchFn when it passed
TickGate(i, out) ==
    /\ i \in Ids
    /\ insts[i].pg > 0
    /\ out \in GateResults(insts[i].gate)
    /\ LET I1 == [insts EXCEPT ![i].pg = @ - 1]
       IN  insts' = IF out = "true"
                    THEN [I1 EXCEPT ![i].pf = @ + 1,
                                    ![i].urlSeen = UrlParam(insts, i)]
                    ELSE IF out = "false" THEN I1
                    ELSE SubscriberError(I1, i)
    /\ UNCHANGED <<subs, runs, threw>>

\* await fetchFn(...) settles, then subscriber.next(result) or the catch
TickFetch(i, ok) ==
    /\ i \in Ids
    /\ insts[i].pf > 0
    /\ LET I1 == [insts EXCEPT ![i].pf = @ - 1]
       IN  IF ok
           THEN /\ insts' = I1
                /\ IF Deliverable(insts, i)
                   THEN /\ Len(runs) < MaxEvents
                        /\ runs' = StartRun(runs, i)
                   ELSE UNCHANGED runs
           ELSE /\ insts' = SubscriberError(I1, i)
                /\ UNCHANGED runs
    /\ UNCHANGED <<subs, threw>>

(***************************************************************************)
(* Event pipeline: the async next handler, one action per await            *)
(***************************************************************************)

\* a handler whose failure errors the stream instead of being caught
PipelineRethrow(I, i) ==
    [I EXCEPT ![i].term = "error", ![i].src = "stopped"]

\* catch (error) { console.error(...) } around the handler's body
PipelineCatch(I, i) == I

\* the transform of the temperature monitor: Celsius to Fahrenheit
Transform(d) ==
    [id             |-> d.deviceId,
     tempCelsius    |-> d.temperature,
     tempFahrenheit |-> (d.temperature * 9) \div 5 + 32]

\* a transform that hands the reading on as it came
TransformSkipped(I, i) == Reading(I[i].event)

\* transformedData: config.transform(data) when a transform is configured,
\* else data
Transformed(I, i) ==
    IF I[i].transform THEN Transform(Reading(I[i].event))
    ELSE Reading(I[i].event)

\* forwardToWebhook is entered: it issues the one fetch POST of the payload
\* and awaits the response
Post(run) ==
    [run EXCEPT !.stage = "forward",
                !.posts = @ + 1,
                !.payload = Transformed(insts, run.inst),
                !.late = subs[insts[run.inst].key].inst # run.inst]

\* a handler that waits for the runs started before it
RunStepSerial(r, from, ok, next) ==
    /\ r \in 1..Len(runs)
    /\ runs[r].stage = from
    /\ \A q \in 1..(r - 1) : runs[q].stage \in {"done", "dropped", "failed"}
    /\ IF ok
       THEN /\ runs' = [runs EXCEPT ![r] = next]
            /\ UNCHANGED insts
       ELSE /\ runs' = [runs EXCEPT ![r].stage = "failed"]
            /\ insts' = PipelineCatch(insts, runs[r].inst)
    /\ UNCHANGED <<subs, threw>>

\* One continuation of the handler: on success the run becomes next, on a
\* throw the catch takes it.
RunStep(r, from, ok, next) ==
    /\ r \in 1..Len(runs)
    /\ runs[r].stage = from
    /\ IF ok
       THEN /\ runs' = [runs EXCEPT ![r] = next]
            /\ UNCHANGED insts
       ELSE /\ runs' = [runs EXCEPT ![r].stage = "failed"]
            /\ insts' = PipelineCatch(insts, runs[r].inst)
    /\ UNCHANGED <<subs, threw>>

\* a pipeline that forwards whatever the gate said
GateIgnored(run, out) ==
    IF insts[run.inst].transform
    THEN [run EXCEPT !.stage = "transform", !.gate = out]
    ELSE Post([run EXCEPT !.gate = out])

\* if (!should) return; otherwise on to the transform, or straight into
\* forwardToWebhook when none is configured
AfterGate(run, out) ==
    IF out # "true" THEN [run EXCEPT !.stage = "dropped", !.gate = out]
    ELSE IF insts[run.inst].transform
    THEN [run EXCEPT !.stage = "transform", !.gate = out]
    ELSE Post([run EXCEPT !.gate = out])

\* await this.shouldProcessEvent(id, config)
RunGate(r, out) ==
    /\ r \in 1..Len(runs)
    /\ out \in (IF runs[r].gate = "pending"
                THEN GateResults(insts[runs[r].inst].gate)
                ELSE {runs[r].gate})
    /\ RunStep(r, "gate", out # "throw", AfterGate(runs[r], out))

\* await Promise.resolve(config.transform(data)), then forwardToWebhook
RunTransform(r, ok) == RunStep(r, "transform", ok, Post(runs[r]))

\* a delivery that posts again when the response is not ok
RunForwardRetry(r, ok) ==
    RunStep(r, "forward", TRUE,
            IF ok THEN [runs[r] EXCEPT !.stage = "done"] ELSE Post(runs[r]))

\* the response of the POST: ok, or the throw on !response.ok or a
\* network failure
RunForward(r, ok) ==
    RunStep(r, "forward", ok, [runs[r] EXCEPT !.stage = "done"])

GateOutcomes == {"true", "false", "throw"}

\* the caller's API calls
Api ==
    \/ \E k \in Keys, cfg \in Configs : Subscribe(k, cfg)
    \/ \E k \in Keys : Unsubscribe(k)
    \/ UnsubscribeAll

\* what the sources, timers and promises do
Sources ==
    \/ \E i \in Ids : FactorySettle(i)
    \/ \E i \in Ids : CustomEmit(i)
    \/ \E i \in Ids, how \in {"complete", "error"} : CustomEnd(i, how)
    \/ \E i \in Ids, valid \in BOOLEAN : WsFrame(i, valid)
    \/ \E i \in Ids : WsConnError(i)
    \/ \E i \in Ids : RetryTimer(i)
    \/ \E i \in Ids : Tick(i)
    \/ \E i \in Ids, out \in GateOutcomes : TickGate(i, out)
    \/ \E i \in Ids, ok \in BOOLEAN : TickFetch(i, ok)

\* the continuations of the pipeline runs
Pipeline ==
    \/ \E r \in 1..Len(runs), out \in GateOutcomes : RunGate(r, out)
    \/ \E r \in 1..Len(runs), ok \in BOOLEAN : RunTransform(r, ok)
    \/ \E r \in 1..Len(runs), ok \in BOOLEAN : RunForward(r, ok)

\* the API in the behaviours that resubscribe
ApiResub ==
    \/ \E k \in Keys, cfg \in Configs : Resubscribe(k, cfg)
    \/ \E k \in Keys : Unsubscribe(k)
    \/ UnsubscribeAll

\* Registry and sources: pipeline runs are started but not followed.
NextRegistry == Api \/ Sources

SpecRegistry == Init /\ [][NextRegistry]_vars

\* The same with up to MaxResubs sources.
NextResubscribe == ApiResub \/ Sources

SpecResubscribe == Init /\ [][NextResubscribe]_vars

\* The valid configs one subscription is followed with through every await
\* of its pipeline runs.
LifetimeConfigs ==
    [type : {"custom"}, sourceUrl : {FALSE}, pollInterval : {FALSE},
     createStream : {"stream"}, shouldFetch : {"none", "any", "first"},
     transform : BOOLEAN, customFetch : {FALSE}, event : Temps]
    \cup
    [type : {"poll"}, sourceUrl : {TRUE}, pollInterval : {TRUE},
     createStream : {"none"}, shouldFetch : {"none", "any"},
     transform : {TRUE}, customFetch : BOOLEAN, event : {25}]
    \cup
    [type : {"websocket"}, sourceUrl : {TRUE}, pollInterval : {FALSE},
     createStream : {"none"}, shouldFetch : {"any"},
     transform : BOOLEAN, customFetch : {FALSE}, event : {25}]

\* a new forwarder on which subscribe(k, cfg) has returned
InitLifetime ==
    \E k \in Keys, cfg \in LifetimeConfigs :
        /\ insts = <<NewInst(k, cfg)>>
        /\ subs = [j \in Keys |->
                      IF j = k
                      THEN [inst |-> 1,
                            h |-> IF cfg.type = "custom" THEN "outer" ELSE "sub"]
                      ELSE None]
        /\ runs = <<>>
        /\ threw = FALSE

\* One subscription from subscribe to unsubscribe: its source, and every
\* run followed through its awaits.
NextLifetime == (\E k \in Keys : Unsubscribe(k)) \/ Sources \/ Pipeline

SpecLifetime == InitLifetime /\ [][NextLifetime]_vars

(***************************************************************************)
(* Properties                                                              *)
(***************************************************************************)

\* the source resource of i is running: socket open, poll timer set, inner
\* Observable subscribed, or a factory-wired resource not yet cleaned up
Running(i) == insts[i].src = "running"

\* C1: in every reachable state each key has at most one running source
\* resource (a resubscribe stops the prior resource before the new one starts).
C1_OneResourcePerKey ==
    \A k \in Keys :
        Cardinality({i \in Ids : insts[i].key = k /\ Running(i)}) <= 1

\* C2: once unsubscribe has torn down the handle of a source, no pipeline run
\* is started for that source any more.
C2_NoRunAfterUnsubscribe ==
    [][\A i \in Ids :
          insts[i].torn > 0 =>
              \A r \in (Len(runs) + 1)..Len(runs') : runs'[r].inst # i]_vars

\* a poll source was unsubscribed after it had delivered an event and while
\* a later fetch was still in flight
C2_Witness ==
    \E i \in Ids :
        /\ insts[i].type = "poll"
        /\ insts[i].torn > 0
        /\ insts[i].pf > 0
        /\ \E r \in 1..Len(runs) : runs[r].inst = i

\* C3: unsubscribe(key) on an active key invokes the recorded teardown handle
\* exactly once (the stream handle is cancelled or the cleanup function is
\* called) and leaves the key absent, other keys and sources untouched;
\* unsubscribe(key) on an absent key changes nothing and does not raise.
C3_UnsubscribeOnce ==
    [][\A k \in Keys :
          Unsubscribe(k) =>
              IF subs[k] # None
              THEN LET i == subs[k].inst IN
                   /\ subs'[k] = None
                   /\ insts[i].torn = 0 /\ insts'[i].torn = 1
                   /\ subs[k].h = "fn" => insts'[i].src = "stopped"
                   /\ subs[k].h \in {"sub", "streamSub"} =>
                          insts'[i].closed /\ insts'[i].src # "running"
                   /\ subs[k].h = "outer" => insts'[i].outer # "open"
                   /\ \A j \in Ids \ {i} : insts'[j] = insts[j]
                   /\ \A k2 \in Keys \ {k} : subs'[k2] = subs[k2]
                   /\ ~threw'
              ELSE /\ UNCHANGED <<subs, insts, runs>>
                   /\ ~threw']_vars

\* a cleanup-function handle was torn down once, the resource it guards is
\* released and its key is absent
C3_Witness ==
    \E i \in Ids :
        /\ insts[i].yields = "cleanup" /\ insts[i].outer = "done"
        /\ insts[i].torn = 1
        /\ ~Running(i)
        /\ subs[insts[i].key] = None

MissingRequired(cfg) ==
    \/ cfg.type \in {"websocket", "poll"} /\ ~cfg.sourceUrl
    \/ cfg.type = "poll" /\ ~cfg.pollInterval
    \/ cfg.type = "custom" /\ cfg.createStream = "none"

\* C5: subscribe(key, config) with a missing required field raises a
\* configuration error from the call; afterwards the registry holds no entry
\* for the key and no source resource was started.
C5_ConfigErrorSynchronous ==
    [][\A k \in Keys, cfg \in Configs :
          Subscribe(k, cfg) /\ MissingRequired(cfg) =>
              /\ threw'
              /\ subs'[k] = None
              /\ Len(insts') = Len(insts)
              /\ \A i \in Ids : Running(i)' => Running(i)]_vars

\* a subscribe call on a key that had been subscribed has just raised a
\* configuration error
C5_Witness ==
    /\ threw
    /\ \E i \in Ids : insts[i].torn = 1 /\ subs[insts[i].key] = None

\* C6: a failure on one tick of a poll subscription does not stop the poll
\* timer: as long as the key stays subscribed to the poll source its timer
\* keeps running.
C6_PollTimerSurvivesFailure ==
    \A i \in Ids :
        insts[i].type = "poll" /\ subs[insts[i].key] = [inst |-> i, h |-> "sub"]
            => Running(i)

\* C7: when the retry delay of a still subscribed socket source that has made
\* fewer than 3 reconnect attempts elapses, a new connection is opened.
C7_ReconnectAfterDelay ==
    [][\A i \in Ids :
          /\ RetryTimer(i)
          /\ insts[i].type = "websocket"
          /\ Deliverable(insts, i)
          /\ insts[i].soFar <= RetryCount
          => Running(i)']_vars

\* C8: a socket stream that ends on its own ends with the terminal error of
\* the exhausted retry policy (3 reconnect attempts were made), never by
\* silent completion, and opens at most 3 further connections.
C8_TerminalErrorAfterThreeRetries ==
    \A i \in Ids :
        insts[i].type = "websocket" =>
            /\ insts[i].soFar <= RetryCount + 1
            /\ insts[i].term # "none" =>
                   insts[i].term = "error" /\ insts[i].soFar = RetryCount + 1

\* C9: a frame that fails parsing or validation is dropped: the connection
\* stays open and no reconnect attempt is consumed.
C9_BadFrameDropped ==
    [][\A i \in Ids :
          WsFrame(i, FALSE) =>
              /\ Running(i)'
              /\ insts'[i].soFar = insts[i].soFar
              /\ insts'[i].term = "none"]_vars

\* C10: a failure inside a pipeline run (gate, transform or forward) is caught
\* for that event and leaves the owning source and the registry as they were,
\* so the source goes on delivering events.
C10_PipelineFailureContained ==
    [][\A r \in 1..Len(runs) :
          runs[r].stage # "failed" /\ runs'[r].stage = "failed"
              => insts' = insts /\ subs' = subs]_vars

\* a run has failed and its source is still subscribed and running
C10_Witness ==
    \E r \in 1..Len(runs) :
        LET i == runs[r].inst IN
        /\ runs[r].stage = "failed"
        /\ Running(i) /\ Deliverable(insts, i)
        /\ subs[insts[i].key].inst = i


\* the runs of the events source i emitted
RunsOf(i) == {r \in 1..Len(runs) : runs[r].inst = i}

\* C11: on a custom subscription the gate is invoked exactly once for every
\* event emitted (never when no gate is configured, and then every event
\* proceeds); a run posts only if its gate returned true, and a run whose gate
\* returned true and that did not fail has posted; a gate returning false
\* ends the run without a POST and without a failure. With the gate that is
\* true on its first invocation only, exactly one of the runs passes, however
\* many events were emitted.
C11_GateOncePerEvent ==
    \A i \in Ids : insts[i].type = "custom" =>
        /\ \A r \in RunsOf(i) :
              /\ runs[r].evals = (IF insts[i].gate = "none" THEN 0 ELSE 1)
              /\ insts[i].gate = "none" =>
                    runs[r].gate = "true" /\ runs[r].stage # "dropped"
              /\ runs[r].posts > 0 => runs[r].gate = "true"
              /\ runs[r].gate = "true" /\ runs[r].stage \in {"forward", "done"}
                    => runs[r].posts = 1
              /\ runs[r].gate = "false" =>
                    runs[r].posts = 0 /\ runs[r].stage \in {"gate", "dropped"}
              /\ runs[r].stage = "dropped" => runs[r].gate = "false"
        /\ insts[i].gate = "first" /\ RunsOf(i) # {} =>
              /\ Cardinality({r \in RunsOf(i) : runs[r].gate = "true"}) = 1
              /\ Cardinality({r \in RunsOf(i) : runs[r].posts > 0}) <= 1

\* the same reading was emitted twice under the first-only gate: two gate
\* invocations, the first run delivered, the second dropped
C11_Witness ==
    \E i \in Ids :
        /\ insts[i].type = "custom" /\ insts[i].gate = "first"
        /\ Len(runs) >= 2
        /\ runs[1].inst = i /\ runs[2].inst = i
        /\ runs[1].evals + runs[2].evals = 2
        /\ runs[1].stage = "done" /\ runs[1].posts = 1
        /\ runs[2].stage = "dropped" /\ runs[2].posts = 0

C13_RejectedFactoryAbsent ==
    \A i \in Ids :
        insts[i].yields = "reject" /\ insts[i].outer = "done" =>
            /\ subs[insts[i].key].inst # i
            /\ RunsOf(i) = {}

\* C14: the body of every POST is the transform's result for the event when
\* a transform is configured (the reading of 25 degrees gives id
\* "sensor-001", tempCelsius 25 and tempFahrenheit 77, the reading of 100
\* degrees tempFahrenheit 212), and the event itself when none is.
C14_PayloadIsTransformedEvent ==
    \A r \in 1..Len(runs) :
        runs[r].posts > 0 =>
            LET i == runs[r].inst
                t == insts[i].event
            IN  IF insts[i].transform
                THEN runs[r].payload =
                         [id             |-> "sensor-001",
                          tempCelsius    |-> t,
                          tempFahrenheit |-> IF t = 25 THEN 77 ELSE 212]
                ELSE runs[r].payload =
                         [deviceId |-> "sensor-001", temperature |-> t]

\* the reading of 25 degrees was delivered through the transform
C14_Witness ==
    \E r \in 1..Len(runs) :
        /\ runs[r].stage = "done"
        /\ insts[runs[r].inst].transform
        /\ insts[runs[r].inst].event = 25
        /\ runs[r].payload.tempFahrenheit = 77

\* C15: whenever unsubscribe, unsubscribeAll or a resubscribe has ended the
\* subscription of a factory that yields a cleanup function, the cleanup
\* function has been invoked (the resource it releases is stopped).
C15_CleanupInvokedOnEnd ==
    \A i \in Ids :
        insts[i].yields = "cleanup" /\ insts[i].torn > 0 => ~Running(i)

\* C16: the step that removes a key from the registry changes no run, so a
\* run in flight keeps its place and its next continuation stays enabled
\* whatever the registry holds; and every run is started by an event that was
\* delivered while the registry held its source under the key.
C16_UnsubscribeLeavesRunsInFlight ==
    [][/\ \A k \in Keys :
             subs[k] # None /\ subs'[k] = None => runs' = runs
       /\ \A r \in 1..Len(runs) :
             /\ runs[r].stage = "gate" =>
                   \E out \in GateOutcomes : ENABLED RunGate(r, out)
             /\ runs[r].stage = "transform" => ENABLED RunTransform(r, TRUE)
             /\ runs[r].stage = "forward" => ENABLED RunForward(r, TRUE)
       /\ \A r \in (Len(runs) + 1)..Len(runs') :
             subs[insts[runs'[r].inst].key].inst = runs'[r].inst]_vars

\* a run issued its POST after unsubscribe had removed its key: a forward
\* happened while the key was absent
C16_Witness ==
    \E r \in 1..Len(runs) :
        /\ runs[r].posts = 1 /\ runs[r].late
        /\ subs[insts[runs[r].inst].key] = None
        /\ insts[runs[r].inst].torn = 1

\* C17: nothing orders the runs of a key: while an earlier run is suspended
\* at an await, every later run of the same source can take its own next
\* step, through to its POST and the response; and a poll source whose
\* fetch is still in flight takes its next tick.
C17_RunsNotSerialised ==
    /\ \A r, q \in 1..Len(runs) :
          /\ r < q /\ runs[r].inst = runs[q].inst
          /\ runs[r].stage \in {"gate", "transform", "forward"}
          => /\ runs[q].stage = "gate" =>
                   \E out \in GateOutcomes : ENABLED RunGate(q, out)
             /\ runs[q].stage = "transform" => ENABLED RunTransform(q, TRUE)
             /\ runs[q].stage = "forward" => ENABLED RunForward(q, TRUE)
    /\ \A i \in Ids :
          /\ insts[i].type = "poll" /\ Running(i)
          /\ insts[i].pf > 0 /\ insts[i].pg + insts[i].pf < MaxInflight
          => ENABLED Tick(i)

\* the second event of a poll source has been delivered to the destination
\* while the run of the first is still at its gate, and two fetches of later
\* ticks are in flight together
C17_Witness ==
    \E i \in Ids :
        /\ insts[i].type = "poll"
        /\ Len(runs) >= 2
        /\ runs[1].inst = i /\ runs[2].inst = i
        /\ runs[1].stage = "gate" /\ runs[1].posts = 0
        /\ runs[2].stage = "done" /\ runs[2].posts = 1
        /\ insts[i].pf = 2

\* C18: whenever a poll subscription with a customFetch has called it, the
\* function received the subscription's source address as its url (first)
\* argument, as defaultFetch receives it as its url.
C18_CustomFetchGetsSourceUrl ==
    \A i \in Ids :
        insts[i].type = "poll" /\ insts[i].urlSeen # "none" =>
            insts[i].urlSeen = "sourceUrl"

\* C19: on a poll subscription with a gate a fetch is started only by the
\* step in which a tick's gate evaluation resolves, and a tick whose gate
\* resolves otherwise calls no fetch function; the fetched event enters the
\* pipeline with that one evaluation made and the pipeline makes the second,
\* so every POST of a poll event follows exactly two evaluations, the second
\* true as well, and a fetched event whose second evaluation is false is
\* dropped without a POST.
C19_PollGateTwice ==
    [][\A i \in Ids :
          insts[i].type = "poll" /\ insts[i].gate # "none" =>
              /\ insts'[i].pf > insts[i].pf => insts'[i].pg = insts[i].pg - 1
              /\ insts'[i].pg < insts[i].pg /\ insts'[i].pf = insts[i].pf
                    => insts'[i].urlSeen = insts[i].urlSeen
              /\ \A r \in (Len(runs) + 1)..Len(runs') :
                    runs'[r].inst = i =>
                        insts'[i].pf = insts[i].pf - 1 /\ runs'[r].evals = 2
              /\ \A r \in RunsOf(i) :
                    /\ runs[r].evals = 2
                    /\ runs'[r].posts > runs[r].posts => runs'[r].gate = "true"
                    /\ runs'[r].gate = "false" =>
                          runs'[r].posts = 0 /\ runs'[r].stage = "dropped"]_vars

\* of two events a gated poll source fetched, one was forwarded after both
\* of its evaluations were true and the other was dropped by its second
C19_Witness ==
    \E i \in Ids, r, q \in 1..Len(runs) :
        /\ insts[i].type = "poll" /\ insts[i].gate = "any"
        /\ runs[r].inst = i /\ runs[q].inst = i
        /\ runs[r].posts = 1 /\ runs[r].gate = "true" /\ runs[r].evals = 2
        /\ runs[q].stage = "dropped" /\ runs[q].gate = "false"
        /\ runs[q].evals = 2

\* C20: a subscribe call that raises a configuration error on a key the
\* registry holds leaves the key absent, with the handle of the previous
\* subscription invoked and the previous resource stopped.
C20_FailedSubscribeTearsDown ==
    [][\A k \in Keys, cfg \in Configs :
          Subscribe(k, cfg) /\ ConfigError(cfg) /\ subs[k] # None =>
              /\ threw'
              /\ subs'[k] = None
              /\ insts'[subs[k].inst].torn = insts[subs[k].inst].torn + 1
              /\ insts'[subs[k].inst].src # "running"]_vars

\* C21: a step takes a source's entry out of the registry only if it is
\* unsubscribe, unsubscribeAll or a subscribe of the same key; the step in
\* which a stream ends on its own leaves the registry as it is, so a stream
\* that has ended and was never unsubscribed is still registered under its
\* key; and unsubscribe of such a key removes the entry, does not raise, and
\* changes no run and no source resource, timer or fetch in flight.
C21_EntryRemovedOnlyByApi ==
    [][/\ \A k \in Keys :
             subs[k] # None /\ subs'[k].inst # subs[k].inst =>
                 \/ Unsubscribe(k)
                 \/ UnsubscribeAll
                 \/ \E cfg \in Configs : Subscribe(k, cfg)
       /\ \A i \in Ids :
             /\ insts[i].term = "none" /\ insts'[i].term # "none"
                   => subs' = subs
             /\ insts[i].term # "none" /\ insts[i].torn = 0
                   => subs[insts[i].key].inst = i
       /\ \A k \in Keys :
             /\ Unsubscribe(k) /\ subs[k] # None
             /\ insts[subs[k].inst].term # "none"
             => /\ subs'[k] = None
                /\ ~threw'
                /\ runs' = runs
                /\ \A j \in Ids :
                      /\ insts'[j].src = insts[j].src
                      /\ insts'[j].timer = insts[j].timer
                      /\ insts'[j].pg = insts[j].pg
                      /\ insts'[j].pf = insts[j].pf]_vars

\* a custom stream completed on its own, stayed registered, and a later
\* unsubscribe removed its key without raising
C21_Witness ==
    \E i \in Ids :
        /\ insts[i].yields = "stream" /\ insts[i].term = "complete"
        /\ insts[i].torn = 1 /\ insts[i].closed
        /\ subs[insts[i].key] = None
        /\ ~threw

====
